---- MODULE Spec2Model ----
(***************************************************************************)
(* The concurrent crawl pipeline of WebScrapingProject:                    *)
(*   ScrapingOrchestrator.run_scraping   (scr/orchestration/orchestrator)   *)
(*   scrape_product_worker, database_writer_worker (scr/orchestration/     *)
(*   workers) and DatabaseManager (scr/implementation/database).           *)
(* One orchestrator (the main thread), NumWorkers scraper workers and one  *)
(* database writer thread share two queue.Queue objects.                   *)
(***************************************************************************)
EXTENDS Naturals, Integers, Sequences, FiniteSets, TLC

(* ------------------------------ bounds -------------------------------- *)
\* scraper_thread_count (SCRAPER_THREAD_COUNT of the environment)
NumWorkers == 2
\* the most product links one run discovers over all its category pages
MaxRefs == 3

\* the most insert_product_data calls made on one connection where the store
\* is exercised on its own
MaxWrites == 2

\* the product urls and the listing names the category pages may show
Urls == {"a", "b"}
Names == {"A", "B"}
\* the listing names of the runs that go through the whole pipeline
PipelineNames == {"A"}
\* the category links of the landing page that match a needed keyword, in
\* document order, named by their last path segment
Slugs == <<"devops", "it-infrastructure">>
\* the values of TEST_PRODUCT_LIMIT tried in test mode
TestLimits == {0, 1}

Workers == 1..NumWorkers

\* self.data_to_write_queue = queue.Queue(): maxsize is left at its default 0,
\* which queue.Queue reads as no limit
data_to_write_queue_maxsize == 0

\* Queue.put waits while 0 < maxsize <= qsize
QueueFull(q, maxsize) == maxsize > 0 /\ Len(q) >= maxsize

\* the shutdown marker both queues carry (Python's None)
None == [none |-> TRUE]

VARIABLES
    opc,                \* the orchestrator's position in run_scraping
    test_mode,          \* config.SCRAPER_TEST_MODE
    test_product_limit, \* config.TEST_PRODUCT_LIMIT
    category_links,     \* result of _get_category_links
    cat_i,              \* categories scanned so far
    all_products,       \* all_products_from_categories
    pq,                 \* product_url_queue: the queued items
    pq_unfinished,      \* product_url_queue.unfinished_tasks
    rq,                 \* data_to_write_queue: the queued items
    rq_unfinished,      \* data_to_write_queue.unfinished_tasks
    sentinels_put,      \* iterations done of the loop that puts None per worker
    wpc,                \* each worker's position in scrape_product_worker
    witem,              \* each worker's product_info
    dpc,                \* the writer's position in database_writer_worker
    ditem,              \* the writer's product_data
    conn,               \* DatabaseManager.conn: "none", "open" or "closed"
    txn,                \* the open transaction: "ok" or "aborted"
    txn_rows,           \* the rows as the open transaction sees them
    rows,               \* the committed rows of table products
    session_closed,     \* WebScraper.session was closed
    hist                \* what has happened so far (history, read by no action)

vars == <<opc, test_mode, test_product_limit, category_links, cat_i, all_products,
          pq, pq_unfinished, rq, rq_unfinished, sentinels_put, wpc, witem,
          dpc, ditem, conn, txn, txn_rows, rows, session_closed, hist>>

orch_vars == <<opc, category_links, cat_i, all_products, sentinels_put>>
conf_vars == <<test_mode, test_product_limit>>
worker_vars == <<wpc, witem>>
writer_vars == <<dpc, ditem>>
db_vars == <<conn, txn, txn_rows, rows>>

(* ------------------------------ helpers ------------------------------- *)
Min(a, b) == IF a < b THEN a ELSE b

Range(s) == {s[i] : i \in 1..Len(s)}

RECURSIVE SeqsUpTo(_, _)
\* all sequences over S of length at most n
SeqsUpTo(S, n) ==
    IF n = 0 THEN {<<>>}
    ELSE LET shorter == SeqsUpTo(S, n - 1)
         IN  shorter \cup {Append(s, x) : s \in {t \in shorter : Len(t) = n - 1}, x \in S}

\* a product link found on the category page with this slug
ProductRef(u, n, c) == [url |-> u, name_on_listing |-> n, category_on_listing |-> c]

\* the product lists _get_product_links_from_category_page can return for a
\* category page: every entry carries the page's slug
PagesOf(slug, names, room) ==
    {[i \in 1..Len(s) |-> ProductRef(s[i][1], s[i][2], slug)] :
        s \in SeqsUpTo(Urls \X names, room)}

(* ------------------------- deduplication ------------------------------ *)
\* mutant: a known key is removed and put back last
DictSetMovesToEnd(d, p) ==
    Append(SelectSeq(d, LAMBDA q : q.url # p.url), p)

\* mutant: a known key keeps its first value
DictSetFirstWins(d, p) ==
    IF \E i \in 1..Len(d) : d[i].url = p.url THEN d ELSE Append(d, p)

\* d[p['url']] = p on a dict kept as its items in insertion order: a new key
\* goes last, a known key keeps its place and takes the new value
DictSet(d, p) ==
    IF \E i \in 1..Len(d) : d[i].url = p.url
    THEN [i \in 1..Len(d) |-> IF d[i].url = p.url THEN p ELSE d[i]]
    ELSE Append(d, p)

RECURSIVE DictOf(_, _)
DictOf(d, ps) ==
    IF ps = <<>> THEN d ELSE DictOf(DictSet(d, Head(ps)), Tail(ps))

\* {p['url']: p for p in all_products_from_categories}.values()
UniqueProducts(ps) == DictOf(<<>>, ps)

\* s[:n] of a list: the first n items, and for a negative n all but the
\* last -n
SliceTo(s, n) ==
    IF n >= 0 THEN SubSeq(s, 1, Min(n, Len(s)))
    ELSE SubSeq(s, 1, IF Len(s) + n > 0 THEN Len(s) + n ELSE 0)

\* the products put on product_url_queue
ProductsToQueue(ps, mode, limit) ==
    LET unique == UniqueProducts(ps)
    IN  IF mode THEN SliceTo(unique, limit) ELSE unique

(* ------------------------------- Init --------------------------------- *)
NoHist == [main_store_ops   |-> 0,   \* db_manager calls of the main thread
           worker_store_ops |-> 0,   \* db_manager calls of the workers
           timeouts       |-> 0,     \* workers that left by queue.Empty
           no_categories  |-> FALSE, \* _get_category_links returned []
           cat_failed     |-> {},    \* category pages whose fetch_page returned None
           enqueued       |-> <<>>,  \* the products put on product_url_queue
           discovered     |-> {},    \* urls of all_products_from_categories
           got            |-> <<>>,  \* urls workers popped, in order
           fetch_failed   |-> {},    \* urls whose fetch_page returned None
           worker_error   |-> {},    \* urls whose handling raised
           rq_records     |-> 0,     \* records put on data_to_write_queue
           rq_sentinels   |-> 0,     \* None put on data_to_write_queue
           rq_got         |-> <<>>,  \* urls of the records the writer popped
           rq_done        |-> 0,     \* task_done calls on data_to_write_queue
           pq_done        |-> 0,     \* task_done calls on product_url_queue
           upsert_ok      |-> {},    \* urls whose insert_product_data returned
           upsert_failed  |-> {},    \* urls whose insert_product_data raised
           commits        |-> 0,     \* conn.commit() calls that returned
           rollbacks      |-> 0,     \* conn.rollback() calls that returned
           disconnects    |-> 0,     \* _disconnect calls of __exit__
           writer_end     |-> "",    \* how the writer left its loop
           exit_raised    |-> FALSE, \* __exit__ raised instead of returning
           join_timeout   |-> FALSE, \* db_writer_thread.join timed out
           critical       |-> FALSE, \* run_scraping's except clause ran
           closes         |-> 0]     \* close_session calls

Init ==
    /\ opc = "create_table"
    /\ test_mode \in BOOLEAN
    /\ test_product_limit \in IF test_mode THEN TestLimits ELSE {0}
    /\ category_links = <<>>
    /\ cat_i = 0
    /\ all_products = <<>>
    /\ pq = <<>>
    /\ pq_unfinished = 0
    /\ rq = <<>>
    /\ rq_unfinished = 0
    /\ sentinels_put = 0
    /\ wpc = [w \in Workers |-> "idle"]
    /\ witem = [w \in Workers |-> None]
    /\ dpc = "idle"
    /\ ditem = None
    /\ conn = "none"
    /\ txn = "ok"
    /\ txn_rows = {}
    /\ rows = {}
    /\ session_closed = FALSE
    /\ hist = NoHist

(* --------------------------- orchestrator ----------------------------- *)
\* the process is alive until run_scraping returns to main.py, which ends;
\* the writer is a daemon thread and ends with it
Running == opc # "done"

\* mutant: create_products_table is called outside the try statement, its
\* error leaves run_scraping without the finally clause
OrchCreateTableOutsideTry ==
    /\ opc = "create_table"
    /\ \/ opc' = "get_categories" /\ hist' = [hist EXCEPT !.main_store_ops = @ + 1]
       \/ opc' = "done" /\ hist' = [hist EXCEPT !.critical = TRUE, !.main_store_ops = @ + 1]
    /\ UNCHANGED <<conf_vars, category_links, cat_i, all_products, sentinels_put,
                   pq, pq_unfinished, rq, rq_unfinished, worker_vars, writer_vars,
                   db_vars, session_closed>>

\* self.db_manager.create_products_table(), called by the main thread: it
\* connects, creates the table, commits and disconnects in its finally clause
\* (conn is None again when it returns); an error is raised to run_scraping's
\* except clause
OrchCreateTable ==
    /\ opc = "create_table"
    /\ \/ opc' = "get_categories" /\ hist' = [hist EXCEPT !.main_store_ops = @ + 1]
       \/ opc' = "teardown" /\ hist' = [hist EXCEPT !.critical = TRUE, !.main_store_ops = @ + 1]
    /\ UNCHANGED <<conf_vars, category_links, cat_i, all_products, sentinels_put,
                   pq, pq_unfinished, rq, rq_unfinished, worker_vars, writer_vars,
                   db_vars, session_closed>>

\* mutant: the check of an empty category list is missing
OrchGetCategoriesNoCheck ==
    /\ opc = "get_categories"
    /\ \E n \in 0..Len(Slugs) :
        /\ category_links' = SubSeq(Slugs, 1, n)
        /\ opc' = "scan_categories"
        /\ hist' = [hist EXCEPT !.no_categories = (n = 0)]
    /\ UNCHANGED <<conf_vars, cat_i, all_products, sentinels_put,
                   pq, pq_unfinished, rq, rq_unfinished, worker_vars, writer_vars,
                   db_vars, session_closed>>

\* category_links = self._get_category_links(): [] when the landing page fetch
\* failed or no link matches; an empty list ends the run
OrchGetCategories ==
    /\ opc = "get_categories"
    /\ \E n \in 0..Len(Slugs) :
        /\ category_links' = SubSeq(Slugs, 1, n)
        /\ opc' = IF n = 0 THEN "teardown" ELSE "scan_categories"
        /\ hist' = [hist EXCEPT !.no_categories = (n = 0)]
    /\ UNCHANGED <<conf_vars, cat_i, all_products, sentinels_put,
                   pq, pq_unfinished, rq, rq_unfinished, worker_vars, writer_vars,
                   db_vars, session_closed>>

\* mutant: a category page whose fetch failed ends the run
ScanCategoryAbortsOnFailure(names) ==
    /\ opc = "scan_categories"
    /\ cat_i < Len(category_links)
    /\ \/ /\ \E page \in PagesOf(category_links[cat_i + 1], names, MaxRefs - Len(all_products)) :
                all_products' = all_products \o page
          /\ hist' = hist
          /\ cat_i' = cat_i + 1
          /\ opc' = opc
       \/ /\ all_products' = all_products
          /\ hist' = [hist EXCEPT !.cat_failed = @ \cup {category_links[cat_i + 1]}]
          /\ cat_i' = cat_i
          /\ opc' = "teardown"
    /\ UNCHANGED <<conf_vars, category_links, sentinels_put,
                   pq, pq_unfinished, rq, rq_unfinished, worker_vars, writer_vars,
                   db_vars, session_closed>>

\* one iteration of the loop over category_links: a fetched page extends
\* all_products_from_categories, a failed fetch is skipped
ScanCategory(names) ==
    /\ opc = "scan_categories"
    /\ cat_i < Len(category_links)
    /\ \/ /\ \E page \in PagesOf(category_links[cat_i + 1], names, MaxRefs - Len(all_products)) :
                all_products' = all_products \o page
          /\ hist' = hist
       \/ /\ all_products' = all_products
          /\ hist' = [hist EXCEPT !.cat_failed = @ \cup {category_links[cat_i + 1]}]
    /\ cat_i' = cat_i + 1
    /\ UNCHANGED <<opc, conf_vars, category_links, sentinels_put,
                   pq, pq_unfinished, rq, rq_unfinished, worker_vars, writer_vars,
                   db_vars, session_closed>>

OrchScanCategory == ScanCategory(PipelineNames)

\* mutant: the check of an empty product_url_queue is missing
OrchPopulateNoEmptyCheck ==
    /\ opc = "scan_categories"
    /\ cat_i = Len(category_links)
    /\ LET products == ProductsToQueue(all_products, test_mode, test_product_limit)
       IN  /\ pq' = pq \o products
           /\ pq_unfinished' = pq_unfinished + Len(products)
           /\ hist' = [hist EXCEPT !.enqueued = products,
                                   !.discovered = {p.url : p \in Range(all_products)}]
           /\ opc' = "start_writer"
    /\ UNCHANGED <<conf_vars, category_links, cat_i, all_products, sentinels_put,
                   rq, rq_unfinished, worker_vars, writer_vars,
                   db_vars, session_closed>>

\* deduplicate by url, cut to the test limit, put every product on
\* product_url_queue; an empty queue ends the run
OrchPopulate ==
    /\ opc = "scan_categories"
    /\ cat_i = Len(category_links)
    /\ LET products == ProductsToQueue(all_products, test_mode, test_product_limit)
       IN  /\ pq' = pq \o products
           /\ pq_unfinished' = pq_unfinished + Len(products)
           /\ hist' = [hist EXCEPT !.enqueued = products,
                                   !.discovered = {p.url : p \in Range(all_products)}]
           /\ opc' = IF products = <<>> THEN "teardown" ELSE "start_writer"
    /\ UNCHANGED <<conf_vars, category_links, cat_i, all_products, sentinels_put,
                   rq, rq_unfinished, worker_vars, writer_vars,
                   db_vars, session_closed>>

\* db_writer_thread.start(). The locals of the discovery phase
\* (category_links, the loop index, all_products_from_categories) are read by
\* nothing from here on and are forgotten, as is the record of the category
\* pages that failed; hist.discovered keeps the urls.
OrchStartWriter ==
    /\ opc = "start_writer"
    /\ dpc' = "enter"
    /\ opc' = "submit"
    /\ category_links' = <<>>
    /\ cat_i' = 0
    /\ all_products' = <<>>
    /\ hist' = [hist EXCEPT !.cat_failed = {}]
    /\ UNCHANGED <<conf_vars, sentinels_put,
                   pq, pq_unfinished, rq, rq_unfinished, worker_vars, ditem,
                   db_vars, session_closed>>

\* one executor.submit of the loop over range(scraper_thread_count): the
\* worker starts running while the later ones are still to be submitted
OrchSubmit ==
    /\ opc = "submit"
    /\ LET w == CHOOSE v \in Workers : wpc[v] = "idle" /\ \A u \in Workers : u < v => wpc[u] # "idle"
       IN  /\ wpc' = [wpc EXCEPT ![w] = "get"]
           /\ opc' = IF w = NumWorkers THEN "join_products" ELSE "submit"
    /\ UNCHANGED <<conf_vars, category_links, cat_i, all_products, sentinels_put,
                   pq, pq_unfinished, rq, rq_unfinished, witem, writer_vars,
                   db_vars, session_closed, hist>>

\* mutant: the orchestrator does not join the queue
OrchNoJoinProducts ==
    /\ opc = "join_products"
    /\ opc' = "put_sentinels"
    /\ UNCHANGED <<conf_vars, category_links, cat_i, all_products, sentinels_put,
                   pq, pq_unfinished, rq, rq_unfinished, worker_vars, writer_vars,
                   db_vars, session_closed, hist>>

\* self.product_url_queue.join() returns once unfinished_tasks is zero
OrchJoinProducts ==
    /\ opc = "join_products"
    /\ pq_unfinished = 0
    /\ opc' = "put_sentinels"
    /\ UNCHANGED <<conf_vars, category_links, cat_i, all_products, sentinels_put,
                   pq, pq_unfinished, rq, rq_unfinished, worker_vars, writer_vars,
                   db_vars, session_closed, hist>>

\* one self.product_url_queue.put(None) of the loop over the workers
OrchPutSentinel ==
    /\ opc = "put_sentinels"
    /\ pq' = Append(pq, None)
    /\ pq_unfinished' = pq_unfinished + 1
    /\ sentinels_put' = sentinels_put + 1
    /\ opc' = IF sentinels_put + 1 = NumWorkers THEN "wait_workers" ELSE "put_sentinels"
    /\ UNCHANGED <<conf_vars, category_links, cat_i, all_products,
                   rq, rq_unfinished, worker_vars, writer_vars,
                   db_vars, session_closed, hist>>

\* mutant: the orchestrator does not wait for the workers
OrchNoWaitWorkers ==
    /\ opc = "wait_workers"
    /\ opc' = "put_writer_sentinel"
    /\ UNCHANGED <<conf_vars, category_links, cat_i, all_products, sentinels_put,
                   pq, pq_unfinished, rq, rq_unfinished, worker_vars, writer_vars,
                   db_vars, session_closed, hist>>

\* as_completed(futures) and the executor's exit return once every worker
\* function has returned
OrchWaitWorkers ==
    /\ opc = "wait_workers"
    /\ \A w \in Workers : wpc[w] = "done"
    /\ opc' = "put_writer_sentinel"
    /\ UNCHANGED <<conf_vars, category_links, cat_i, all_products, sentinels_put,
                   pq, pq_unfinished, rq, rq_unfinished, worker_vars, writer_vars,
                   db_vars, session_closed, hist>>

\* self.data_to_write_queue.put(None)
OrchPutWriterSentinel ==
    /\ opc = "put_writer_sentinel"
    /\ rq' = Append(rq, None)
    /\ rq_unfinished' = rq_unfinished + 1
    /\ hist' = [hist EXCEPT !.rq_sentinels = @ + 1]
    /\ opc' = "join_writer"
    /\ UNCHANGED <<conf_vars, category_links, cat_i, all_products, sentinels_put,
                   pq, pq_unfinished, worker_vars, writer_vars,
                   db_vars, session_closed>>

\* db_writer_thread.join(timeout=300): returns when the writer has ended, or
\* after the timeout with the writer still alive
OrchJoinWriter ==
    /\ opc = "join_writer"
    /\ \/ dpc = "done" /\ hist' = hist
       \/ dpc # "done" /\ hist' = [hist EXCEPT !.join_timeout = TRUE]
    /\ opc' = "teardown"
    /\ UNCHANGED <<conf_vars, category_links, cat_i, all_products, sentinels_put,
                   pq, pq_unfinished, rq, rq_unfinished, worker_vars, writer_vars,
                   db_vars, session_closed>>

\* the finally clause: self.main_scraper.close_session(), the timing log, and
\* run_scraping returns
OrchTeardown ==
    /\ opc = "teardown"
    /\ session_closed' = TRUE
    /\ hist' = [hist EXCEPT !.closes = @ + 1]
    /\ opc' = "done"
    /\ UNCHANGED <<conf_vars, category_links, cat_i, all_products, sentinels_put,
                   pq, pq_unfinished, rq, rq_unfinished, worker_vars, writer_vars,
                   db_vars>>

Orchestrator ==
    \/ OrchCreateTable
    \/ OrchGetCategories
    \/ OrchScanCategory
    \/ OrchPopulate
    \/ OrchStartWriter
    \/ OrchSubmit
    \/ OrchJoinProducts
    \/ OrchPutSentinel
    \/ OrchWaitWorkers
    \/ OrchPutWriterSentinel
    \/ OrchJoinWriter
    \/ OrchTeardown

(* ------------------------- scrape_product_worker ---------------------- *)
\* mutant: product_data['url'] is not set to the product's url
ProductRecordNoUrl(p) ==
    [url |-> "", product_name |-> p.name_on_listing, category |-> p.category_on_listing]

\* extract_product_details of a page that shows none of the optional fields
\* (the listing name and category are kept), with product_data['url'] set
ProductRecord(p) ==
    [url |-> p.url, product_name |-> p.name_on_listing, category |-> p.category_on_listing]

\* mutant: the worker reads the head of the queue and leaves it there
WorkerGetPeek(w) ==
    /\ wpc[w] = "get"
    /\ pq # <<>>
    /\ Len(hist.got) < 3
    /\ witem' = [witem EXCEPT ![w] = Head(pq)]
    /\ wpc' = [wpc EXCEPT ![w] = IF Head(pq) = None THEN "sentinel" ELSE "fetch"]
    /\ hist' = IF Head(pq) = None THEN hist
               ELSE [hist EXCEPT !.got = Append(@, Head(pq).url)]
    /\ UNCHANGED <<orch_vars, conf_vars, pq, pq_unfinished, rq, rq_unfinished,
                   writer_vars, db_vars, session_closed>>

\* product_info = product_url_queue.get(timeout=1.5), an item being there
WorkerGet(w) ==
    /\ wpc[w] = "get"
    /\ pq # <<>>
    /\ witem' = [witem EXCEPT ![w] = Head(pq)]
    /\ pq' = Tail(pq)
    /\ wpc' = [wpc EXCEPT ![w] = IF Head(pq) = None THEN "sentinel" ELSE "fetch"]
    /\ hist' = IF Head(pq) = None THEN hist
               ELSE [hist EXCEPT !.got = Append(@, Head(pq).url)]
    /\ UNCHANGED <<orch_vars, conf_vars, pq_unfinished, rq, rq_unfinished,
                   writer_vars, db_vars, session_closed>>

\* mutant: a worker that leaves its loop closes the scraper's session
WorkerTimeoutCloses(w) ==
    /\ wpc[w] = "get"
    /\ pq = <<>>
    /\ wpc' = [wpc EXCEPT ![w] = "done"]
    /\ session_closed' = TRUE
    /\ hist' = [hist EXCEPT !.closes = Min(@ + 1, 2), !.timeouts = @ + 1]
    /\ UNCHANGED <<orch_vars, conf_vars, pq, pq_unfinished, rq, rq_unfinished, witem,
                   writer_vars, db_vars>>

\* the get finds the queue empty for the whole timeout: queue.Empty, break
WorkerTimeout(w) ==
    /\ wpc[w] = "get"
    /\ pq = <<>>
    /\ wpc' = [wpc EXCEPT ![w] = "done"]
    /\ hist' = [hist EXCEPT !.timeouts = @ + 1]
    /\ UNCHANGED <<orch_vars, conf_vars, pq, pq_unfinished, rq, rq_unfinished, witem,
                   writer_vars, db_vars, session_closed>>

\* mutant: on None the worker marks it done, puts it back for the other
\* workers and goes on popping instead of leaving the loop
WorkerSentinelReput(w) ==
    /\ wpc[w] = "sentinel"
    /\ pq' = Append(pq, None)
    /\ wpc' = [wpc EXCEPT ![w] = "get"]
    /\ UNCHANGED <<orch_vars, conf_vars, pq_unfinished, rq, rq_unfinished, witem,
                   writer_vars, db_vars, session_closed, hist>>

\* mutant: on None the worker marks it done and goes on popping (the break
\* is missing)
WorkerSentinelContinues(w) ==
    /\ wpc[w] = "sentinel"
    /\ pq_unfinished' = pq_unfinished - 1
    /\ hist' = [hist EXCEPT !.pq_done = @ + 1]
    /\ wpc' = [wpc EXCEPT ![w] = "get"]
    /\ UNCHANGED <<orch_vars, conf_vars, pq, rq, rq_unfinished, witem,
                   writer_vars, db_vars, session_closed>>

\* product_info is None: task_done and break
WorkerSentinel(w) ==
    /\ wpc[w] = "sentinel"
    /\ pq_unfinished' = pq_unfinished - 1
    /\ hist' = [hist EXCEPT !.pq_done = @ + 1]
    /\ wpc' = [wpc EXCEPT ![w] = "done"]
    /\ UNCHANGED <<orch_vars, conf_vars, pq, rq, rq_unfinished, witem,
                   writer_vars, db_vars, session_closed>>

\* mutant: task_done is called before the put, and the worker is preempted
\* between the two
WorkerMarksBeforePut(w) ==
    /\ wpc[w] = "fetch"
    /\ pq_unfinished' = pq_unfinished - 1
    /\ hist' = [hist EXCEPT !.pq_done = @ + 1]
    /\ wpc' = [wpc EXCEPT ![w] = "put"]
    /\ UNCHANGED <<orch_vars, conf_vars, pq, rq, rq_unfinished, witem,
                   writer_vars, db_vars, session_closed>>

\* mutant: the worker writes its record to the store itself
WorkerPutInserts(w) ==
    /\ wpc[w] = "fetch"
    /\ txn_rows' = {r \in txn_rows : r.url # witem[w].url} \cup {ProductRecord(witem[w])}
    /\ hist' = [hist EXCEPT !.worker_store_ops = 1]
    /\ wpc' = [wpc EXCEPT ![w] = "task_done"]
    /\ UNCHANGED <<orch_vars, conf_vars, pq, pq_unfinished, rq, rq_unfinished, witem,
                   writer_vars, conn, txn, rows, session_closed>>

\* worker_scraper.fetch_page(product_url, ...) returned a tree: extract the
\* record, set its url and put it on data_to_write_queue (the put would wait
\* on a full queue)
WorkerPut(w) ==
    /\ wpc[w] = "fetch"
    /\ ~QueueFull(rq, data_to_write_queue_maxsize)
    /\ rq' = Append(rq, ProductRecord(witem[w]))
    /\ rq_unfinished' = rq_unfinished + 1
    /\ hist' = [hist EXCEPT !.rq_records = @ + 1]
    /\ wpc' = [wpc EXCEPT ![w] = "task_done"]
    /\ UNCHANGED <<orch_vars, conf_vars, pq, pq_unfinished, witem,
                   writer_vars, db_vars, session_closed>>

\* mutant: the record is built and put although the fetch failed
WorkerSkipPuts(w) ==
    /\ wpc[w] = "fetch"
    /\ rq' = Append(rq, ProductRecord(witem[w]))
    /\ rq_unfinished' = rq_unfinished + 1
    /\ hist' = [hist EXCEPT !.fetch_failed = @ \cup {witem[w].url},
                            !.rq_records = @ + 1]
    /\ wpc' = [wpc EXCEPT ![w] = "task_done"]
    /\ UNCHANGED <<orch_vars, conf_vars, pq, pq_unfinished, witem,
                   writer_vars, db_vars, session_closed>>

\* mutant: the else branch calls task_done too, before the one that ends
\* the loop body
WorkerSkipMarksDone(w) ==
    /\ wpc[w] = "fetch"
    /\ pq_unfinished' = pq_unfinished - 1
    /\ hist' = [hist EXCEPT !.fetch_failed = @ \cup {witem[w].url},
                            !.pq_done = @ + 1]
    /\ wpc' = [wpc EXCEPT ![w] = "task_done"]
    /\ UNCHANGED <<orch_vars, conf_vars, pq, rq, rq_unfinished, witem,
                   writer_vars, db_vars, session_closed>>

\* fetch_page returned None (any network, HTTP or parse failure): a warning,
\* nothing is put
WorkerSkip(w) ==
    /\ wpc[w] = "fetch"
    /\ hist' = [hist EXCEPT !.fetch_failed = @ \cup {witem[w].url}]
    /\ wpc' = [wpc EXCEPT ![w] = "task_done"]
    /\ UNCHANGED <<orch_vars, conf_vars, pq, pq_unfinished, rq, rq_unfinished, witem,
                   writer_vars, db_vars, session_closed>>

\* mutant: the except clause puts the product back for one retry
WorkerErrorRetryOnce(w) ==
    /\ wpc[w] = "fetch"
    /\ pq' = IF witem[w].url \in hist.worker_error THEN pq ELSE Append(pq, witem[w])
    /\ pq_unfinished' = IF witem[w].url \in hist.worker_error
                        THEN pq_unfinished - 1 ELSE pq_unfinished
    /\ hist' = [hist EXCEPT !.pq_done = IF witem[w].url \in hist.worker_error
                                        THEN @ + 1 ELSE @,
                            !.worker_error = @ \cup {witem[w].url}]
    /\ wpc' = [wpc EXCEPT ![w] = "get"]
    /\ UNCHANGED <<orch_vars, conf_vars, rq, rq_unfinished, witem,
                   writer_vars, db_vars, session_closed>>

\* mutant: the except clause marks the item done and the worker returns
WorkerErrorBreaks(w) ==
    /\ wpc[w] = "fetch"
    /\ pq_unfinished' = pq_unfinished - 1
    /\ hist' = [hist EXCEPT !.pq_done = @ + 1,
                            !.worker_error = @ \cup {witem[w].url}]
    /\ wpc' = [wpc EXCEPT ![w] = "done"]
    /\ UNCHANGED <<orch_vars, conf_vars, pq, rq, rq_unfinished, witem,
                   writer_vars, db_vars, session_closed>>

\* mutant: the except clause logs the error and does not call task_done
WorkerErrorNoTaskDone(w) ==
    /\ wpc[w] = "fetch"
    /\ hist' = [hist EXCEPT !.worker_error = @ \cup {witem[w].url}]
    /\ wpc' = [wpc EXCEPT ![w] = "get"]
    /\ UNCHANGED <<orch_vars, conf_vars, pq, pq_unfinished, rq, rq_unfinished, witem,
                   writer_vars, db_vars, session_closed>>

\* an exception while the item is handled, before the put: the except clause
\* logs it, calls task_done and the loop goes on
WorkerError(w) ==
    /\ wpc[w] = "fetch"
    /\ pq_unfinished' = pq_unfinished - 1
    /\ hist' = [hist EXCEPT !.pq_done = @ + 1,
                            !.worker_error = @ \cup {witem[w].url}]
    /\ wpc' = [wpc EXCEPT ![w] = "get"]
    /\ UNCHANGED <<orch_vars, conf_vars, pq, rq, rq_unfinished, witem,
                   writer_vars, db_vars, session_closed>>

\* product_url_queue.task_done() at the end of the loop body
WorkerTaskDone(w) ==
    /\ wpc[w] = "task_done"
    /\ pq_unfinished' = pq_unfinished - 1
    /\ hist' = [hist EXCEPT !.pq_done = @ + 1]
    /\ wpc' = [wpc EXCEPT ![w] = "get"]
    /\ UNCHANGED <<orch_vars, conf_vars, pq, rq, rq_unfinished, witem,
                   writer_vars, db_vars, session_closed>>

Worker(w) ==
    \/ WorkerGet(w)
    \/ WorkerTimeout(w)
    \/ WorkerSentinel(w)
    \/ WorkerPut(w)
    \/ WorkerSkip(w)
    \/ WorkerError(w)
    \/ WorkerTaskDone(w)

(* --------------------------- DatabaseManager -------------------------- *)
\* mutant: ON CONFLICT (url) DO NOTHING
UpsertDoNothing(rs, rec) ==
    IF \E r \in rs : r.url = rec.url THEN rs ELSE rs \cup {rec}

\* INSERT ... ON CONFLICT (url) DO UPDATE SET col = value for every column of
\* the record but url: a row with the record's url takes the record's other
\* columns, and without such a row the record is added
Upsert(rs, rec) ==
    IF \E r \in rs : r.url = rec.url
    THEN {IF r.url = rec.url
          THEN [r EXCEPT !.product_name = rec.product_name, !.category = rec.category]
          ELSE r : r \in rs}
    ELSE rs \cup {rec}

\* what insert_product_data can do with a record:
\*   "ok"      the statement ran
\*   "error"   cur.execute raised before the server ran anything
\*   "aborted" the server rejected the statement: PostgreSQL then refuses every
\*             later statement of the transaction and ends it by rolling back
\*   "lost"    the connection broke: conn.closed from now on
InsertOutcomes ==
    IF conn # "open" THEN {"no_connection"}
    ELSE IF txn = "aborted" THEN {"aborted", "lost"}
    ELSE {"ok", "error", "aborted", "lost"}

\* DatabaseManager.__exit__(exc_type, ...): rollback if an exception left the
\* with block, commit otherwise, then _disconnect; commit and rollback raise on
\* a broken connection and the _disconnect after them is skipped
DbExit(exc_type) ==
    IF conn = "closed"
    THEN [conn |-> conn, rows |-> rows, commits |-> 0, rollbacks |-> 0,
          disconnects |-> 0, raised |-> TRUE]
    ELSE IF conn = "none"
    THEN [conn |-> "none", rows |-> rows, commits |-> 0, rollbacks |-> 0,
          disconnects |-> 1, raised |-> FALSE]
    ELSE IF exc_type
    THEN [conn |-> "none", rows |-> rows, commits |-> 0, rollbacks |-> 1,
          disconnects |-> 1, raised |-> FALSE]
    ELSE [conn |-> "none", rows |-> IF txn = "ok" THEN txn_rows ELSE rows,
          commits |-> 1, rollbacks |-> 0, disconnects |-> 1, raised |-> FALSE]

(* ------------------------ database_writer_worker ---------------------- *)
\* mutant: _connect logs the connection error and does not raise it again
WriterEnterSwallowsError ==
    /\ Running
    /\ dpc = "enter"
    /\ \/ /\ conn' = "open"
          /\ txn' = "ok"
          /\ txn_rows' = rows
          /\ hist' = hist
       \/ /\ conn' = "none"
          /\ UNCHANGED <<txn, txn_rows>>
          /\ hist' = [hist EXCEPT !.writer_end = "connect_failed"]
    /\ dpc' = "get"
    /\ UNCHANGED <<orch_vars, conf_vars, pq, pq_unfinished, rq, rq_unfinished,
                   worker_vars, ditem, rows, session_closed>>

\* with db_manager as db: __enter__ connects; a connection error is raised to
\* the function's except clause and the thread ends
WriterEnter ==
    /\ Running
    /\ dpc = "enter"
    /\ \/ /\ conn' = "open"
          /\ txn' = "ok"
          /\ txn_rows' = rows
          /\ dpc' = "get"
          /\ hist' = hist
       \/ /\ conn' = "none"
          /\ UNCHANGED <<txn, txn_rows>>
          /\ dpc' = "done"
          /\ hist' = [hist EXCEPT !.writer_end = "connect_failed"]
    /\ UNCHANGED <<orch_vars, conf_vars, pq, pq_unfinished, rq, rq_unfinished,
                   worker_vars, ditem, rows, session_closed>>

\* product_data = data_to_write_queue.get(timeout=10), an item being there
WriterGet ==
    /\ Running
    /\ dpc = "get"
    /\ rq # <<>>
    /\ ditem' = Head(rq)
    /\ rq' = Tail(rq)
    /\ dpc' = IF Head(rq) = None THEN "sentinel" ELSE "insert"
    /\ hist' = IF Head(rq) = None THEN hist
               ELSE [hist EXCEPT !.rq_got = Append(@, Head(rq).url)]
    /\ UNCHANGED <<orch_vars, conf_vars, pq, pq_unfinished, rq_unfinished,
                   worker_vars, db_vars, session_closed>>

\* the get finds the queue empty for the whole timeout: queue.Empty, break
WriterTimeout ==
    /\ Running
    /\ dpc = "get"
    /\ rq = <<>>
    /\ dpc' = "exit"
    /\ hist' = [hist EXCEPT !.writer_end = "timeout"]
    /\ UNCHANGED <<orch_vars, conf_vars, pq, pq_unfinished, rq, rq_unfinished,
                   worker_vars, ditem, db_vars, session_closed>>

\* product_data is None: task_done and break
WriterSentinel ==
    /\ Running
    /\ dpc = "sentinel"
    /\ rq_unfinished' = rq_unfinished - 1
    /\ dpc' = "exit"
    /\ hist' = [hist EXCEPT !.rq_done = @ + 1, !.writer_end = "sentinel"]
    /\ UNCHANGED <<orch_vars, conf_vars, pq, pq_unfinished, rq,
                   worker_vars, ditem, db_vars, session_closed>>

\* db.insert_product_data(product_data) inside try/except/finally: an error is
\* logged and swallowed, and data_to_write_queue.task_done() runs either way
WriterInsert ==
    /\ Running
    /\ dpc = "insert"
    /\ \E outcome \in InsertOutcomes :
        /\ txn_rows' = IF outcome = "ok" THEN Upsert(txn_rows, ditem) ELSE txn_rows
        /\ txn' = IF outcome = "aborted" THEN "aborted" ELSE txn
        /\ conn' = IF outcome = "lost" THEN "closed" ELSE conn
        /\ hist' = IF outcome = "ok"
                   THEN [hist EXCEPT !.rq_done = @ + 1, !.upsert_ok = @ \cup {ditem.url}]
                   ELSE [hist EXCEPT !.rq_done = @ + 1, !.upsert_failed = @ \cup {ditem.url}]
    /\ rq_unfinished' = rq_unfinished - 1
    /\ dpc' = "get"
    /\ UNCHANGED <<orch_vars, conf_vars, pq, pq_unfinished, rq,
                   worker_vars, ditem, rows, session_closed>>

\* the with block is left by break, no exception pending: __exit__(None, ...)
WriterExit ==
    /\ Running
    /\ dpc = "exit"
    /\ LET r == DbExit(FALSE)
       IN  /\ conn' = r.conn
           /\ rows' = r.rows
           /\ hist' = [hist EXCEPT !.commits = @ + r.commits,
                                   !.rollbacks = @ + r.rollbacks,
                                   !.disconnects = @ + r.disconnects,
                                   !.exit_raised = r.raised]
    /\ dpc' = "done"
    /\ UNCHANGED <<orch_vars, conf_vars, pq, pq_unfinished, rq, rq_unfinished,
                   worker_vars, ditem, txn, txn_rows, session_closed>>

Writer ==
    \/ WriterEnter
    \/ WriterGet
    \/ WriterTimeout
    \/ WriterSentinel
    \/ WriterInsert
    \/ WriterExit

(* ---------------------------- specification --------------------------- *)
Next ==
    \/ Orchestrator
    \/ \E w \in Workers : Worker(w)
    \/ Writer

Spec == Init /\ [][Next]_vars

\* the threads are preemptively scheduled: none is starved while it can step
FairSpec ==
    /\ Spec
    /\ WF_vars(Orchestrator)
    /\ \A w \in Workers : WF_vars(Worker(w))
    /\ WF_vars(Writer)

\* the discovery phase alone, over pages with every listing name: the run up
\* to the populated product_url_queue, and the teardown of a run that ends there
DiscoveryScanCategory == ScanCategory(Names)

DiscoveryNext ==
    \/ OrchCreateTable
    \/ OrchGetCategories
    \/ DiscoveryScanCategory
    \/ OrchPopulate
    \/ OrchTeardown

DiscoverySpec == Init /\ [][DiscoveryNext]_vars

\* the records insert_product_data may be given
StoreRecords ==
    {[url |-> u, product_name |-> n, category |-> Slugs[c]] :
        u \in Urls, n \in Names, c \in 1..Len(Slugs)}

\* the contents table products can have: url is UNIQUE
Stores == {rs \in SUBSET StoreRecords : \A r1, r2 \in rs : r1.url = r2.url => r1 = r2}

\* the DatabaseManager on its own, entered (connected) on a store that earlier
\* runs have filled; no thread of the pipeline has started
StoreInit ==
    /\ opc = "create_table"
    /\ test_mode = FALSE
    /\ test_product_limit = 0
    /\ category_links = <<>>
    /\ cat_i = 0
    /\ all_products = <<>>
    /\ pq = <<>>
    /\ pq_unfinished = 0
    /\ rq = <<>>
    /\ rq_unfinished = 0
    /\ sentinels_put = 0
    /\ wpc = [w \in Workers |-> "idle"]
    /\ witem = [w \in Workers |-> None]
    /\ dpc = "idle"
    /\ ditem = None
    /\ conn = "open"
    /\ txn = "ok"
    /\ rows \in Stores
    /\ txn_rows = rows
    /\ session_closed = FALSE
    /\ hist = NoHist

\* db.insert_product_data(rec) on the entered manager, with this outcome
StoreInsert(rec, outcome) ==
    /\ conn # "none"
    /\ ~hist.exit_raised
    /\ Len(hist.rq_got) < MaxWrites
    /\ outcome \in InsertOutcomes
    /\  /\ txn_rows' = IF outcome = "ok" THEN Upsert(txn_rows, rec) ELSE txn_rows
        /\ txn' = IF outcome = "aborted" THEN "aborted" ELSE txn
        /\ conn' = IF outcome = "lost" THEN "closed" ELSE conn
        /\ hist' = IF outcome = "ok"
                   THEN [hist EXCEPT !.rq_got = Append(@, rec.url),
                                     !.upsert_ok = @ \cup {rec.url}]
                   ELSE [hist EXCEPT !.rq_got = Append(@, rec.url),
                                     !.upsert_failed = @ \cup {rec.url}]
    /\ ditem' = rec
    /\ UNCHANGED <<orch_vars, conf_vars, pq, pq_unfinished, rq, rq_unfinished,
                   worker_vars, dpc, rows, session_closed>>

\* the with block is left with no exception pending: __exit__(None, ...)
StoreExit ==
    /\ conn # "none"
    /\ ~hist.exit_raised
    /\ LET r == DbExit(FALSE)
       IN  /\ conn' = r.conn
           /\ rows' = r.rows
           /\ hist' = [hist EXCEPT !.commits = @ + r.commits,
                                   !.rollbacks = @ + r.rollbacks,
                                   !.disconnects = @ + r.disconnects,
                                   !.exit_raised = r.raised]
    /\ UNCHANGED <<orch_vars, conf_vars, pq, pq_unfinished, rq, rq_unfinished,
                   worker_vars, writer_vars, txn, txn_rows, session_closed>>

StoreNext ==
    \/ \E rec \in StoreRecords, outcome \in {"ok", "error", "aborted", "lost", "no_connection"} :
          StoreInsert(rec, outcome)
    \/ StoreExit

StoreSpec == StoreInit /\ [][StoreNext]_vars

(* ------------------------------ properties ---------------------------- *)
\* the records among the items of a queue
Records(q) == SelectSeq(q, LAMBDA x : x # None)

\* the urls of a sequence of products or records
UrlsOf(q) == [i \in 1..Len(q) |-> q[i].url]

\* how often x occurs in sequence q
Count(q, x) == Cardinality({i \in 1..Len(q) : q[i] = x})

AllWorkersExited == \A w \in Workers : wpc[w] = "done"

\* a worker holds a product it popped and has not yet marked done
InFlight(w) == wpc[w] \in {"fetch", "task_done"}

\* the writer has left its loop, by the None or by the timeout, and has ended
WriterDone == dpc = "done" /\ hist.writer_end \in {"sentinel", "timeout"}

\* C1: every record put on data_to_write_queue is consumed by the writer
\* exactly once: when the writer has ended none is left on the queue, and no
\* record was dequeued twice.
C1_RecordsConsumedExactlyOnce ==
    /\ WriterDone => Records(rq) = <<>>
    /\ \A u \in Urls : Count(hist.rq_got, u) <= 1

\* C2: when the writer has ended, its task_done calls on data_to_write_queue
\* number the records the workers enqueued plus one for the None.
C2_WriterMarkDoneCount ==
    WriterDone => hist.rq_done = hist.rq_records + 1

\* C3: every product put on product_url_queue is consumed exactly once: the
\* workers pop the products in queue order, each once, no two workers hold the
\* same product, what is neither popped nor queued does not exist, and once
\* all workers have exited no product is left in the queue.
C3_RefsConsumedExactlyOnce ==
    LET K == Len(hist.enqueued)
        g == Len(hist.got)
    IN  /\ g <= K
        /\ hist.got = UrlsOf(SubSeq(hist.enqueued, 1, g))
        /\ Records(pq) = SubSeq(hist.enqueued, g + 1, K)
        /\ \A u \in Urls : Count(hist.got, u) <= 1
        /\ \A w1, w2 \in Workers :
              w1 # w2 /\ InFlight(w1) /\ InFlight(w2) => witem[w1].url # witem[w2].url
        /\ AllWorkersExited => Records(pq) = <<>> /\ g = K

\* C3 witness: two workers have shared two products and all have exited
C3_Witness ==
    /\ AllWorkersExited
    /\ Len(hist.got) = 2
    /\ hist.rq_records = 2

\* C4: once the pool runs, every worker eventually returns, whatever mix of
\* fetched pages, failed fetches and unexpected errors the products meet.
C4_WorkersTerminate ==
    (\E w \in Workers : wpc[w] # "idle") ~> AllWorkersExited

\* C4 witness: all workers have returned from a run that saw a fetched page,
\* a failed fetch and an unexpected error
C4_Witness ==
    /\ AllWorkersExited
    /\ hist.fetch_failed # {}
    /\ hist.worker_error # {}
    /\ Len(hist.enqueued) = 2

\* C5: data_to_write_queue receives at most one record per queued product and
\* then exactly one None; the None is put only after every worker has
\* returned, so it is the last item of the queue and no record follows it.
C5_RecordsThenOneSentinel ==
    /\ hist.rq_records <= Len(hist.enqueued)
    /\ hist.rq_records + Cardinality(hist.fetch_failed) + Cardinality(hist.worker_error)
          <= Len(hist.got)
    /\ hist.rq_sentinels <= 1
    /\ hist.rq_sentinels = 1 => AllWorkersExited
    /\ \A i \in 1..Len(rq) : rq[i] = None => i = Len(rq)
    /\ opc = "join_writer" => hist.rq_sentinels = 1
    /\ hist.rq_sentinels = 1 <=>
          (opc \in {"join_writer", "teardown", "done"} /\ AllWorkersExited)

\* C5 witness: both records are on the queue with the None behind them
C5_Witness ==
    /\ Len(rq) = 3
    /\ rq[3] = None
    /\ hist.rq_records = 2

\* C6: no None is in product_url_queue while a product is still queued or held
\* by a worker that has not marked it done.
C6_SentinelsAfterJoin ==
    (\E i \in 1..Len(pq) : pq[i] = None) =>
        /\ Records(pq) = <<>>
        /\ \A w \in Workers : ~InFlight(w)
        /\ hist.pq_done >= Len(hist.enqueued)

\* C6 witness: a None is queued for the workers after two products were done
C6_Witness ==
    /\ \E i \in 1..Len(pq) : pq[i] = None
    /\ Len(hist.got) = 2
    /\ \E w \in Workers : wpc[w] = "get"

\* the urls the store was asked to write, or has rows of, in this run
WrittenUrls ==
    hist.upsert_ok \cup hist.upsert_failed
        \cup {r.url : r \in txn_rows} \cup {r.url : r \in rows}

\* C7: a product whose fetch failed gives no record: none is queued for the
\* writer, popped by it, or written; the product is popped once (no retry),
\* and the worker holding it is about to mark it done and pop again.
C7_FailedFetchWritesNothing ==
    \A u \in hist.fetch_failed :
        /\ u \notin Range(UrlsOf(Records(rq)))
        /\ u \notin Range(hist.rq_got)
        /\ (dpc = "insert" => ditem.url # u)
        /\ u \notin WrittenUrls
        /\ Count(hist.got, u) = 1
        /\ \A w \in Workers :
              (InFlight(w) /\ witem[w].url = u) => wpc[w] = "task_done"

\* C7 witness: the run is over, one product's fetch failed and the other
\* product's row is committed
C7_Witness ==
    /\ opc = "done"
    /\ hist.fetch_failed # {}
    /\ rows # {}

\* the last entry of ps with url u
LastWithUrl(ps, u) ==
    ps[CHOOSE i \in 1..Len(ps) :
          ps[i].url = u /\ \A j \in (i + 1)..Len(ps) : ps[j].url # u]

\* d holds exactly one entry per url of ps, and it is the last entry of ps
\* with that url
OnePerUrlLastWins(d, ps) ==
    /\ \A p \in Range(ps) : Cardinality({i \in 1..Len(d) : d[i].url = p.url}) = 1
    /\ \A i \in 1..Len(d) :
          /\ d[i].url \in {p.url : p \in Range(ps)}
          /\ d[i] = LastWithUrl(ps, d[i].url)

\* C8: the deduplication of the discovered products yields exactly one entry
\* per unique url, with the listing name and category of the last discovered
\* product with that url; outside test mode this is what is queued.
C8_DedupLastWins ==
    /\ OnePerUrlLastWins(UniqueProducts(all_products), all_products)
    /\ (opc = "start_writer" /\ ~test_mode) => OnePerUrlLastWins(pq, all_products)

\* C8 witness: three products were discovered, two of them share a url and
\* differ in listing name and category, and two products are queued
C8_Witness ==
    /\ opc = "start_writer"
    /\ ~test_mode
    /\ Len(all_products) = 3
    /\ Len(pq) = 2
    /\ \E i, j \in 1..3 :
          /\ i < j
          /\ all_products[i].url = all_products[j].url
          /\ all_products[i].name_on_listing # all_products[j].name_on_listing
          /\ all_products[i].category_on_listing # all_products[j].category_on_listing

\* the run went through the pipeline and ended with every step succeeding
CleanRun ==
    /\ opc = "done"
    /\ dpc = "done"
    /\ ~test_mode
    /\ ~hist.critical
    /\ ~hist.join_timeout
    /\ hist.fetch_failed = {}
    /\ hist.worker_error = {}
    /\ hist.upsert_failed = {}
    /\ hist.writer_end # "connect_failed"
    /\ ~hist.exit_raised

\* C9: a run in which every fetch and every upsert succeeds ends with exactly
\* one committed row per unique discovered url.
C9_OneRowPerUniqueUrl ==
    CleanRun =>
        /\ {r.url : r \in rows} = hist.discovered
        /\ Cardinality(rows) = Cardinality(hist.discovered)

\* C10: when the writer has ended after the None or the timeout, exactly one of
\* commit and rollback has happened, the connection is released, and with no
\* exception out of the with block every successful upsert is committed.
C10_ExitCommitsOrRollsBack ==
    WriterDone =>
        /\ hist.commits + hist.rollbacks = 1
        /\ conn = "none"
        /\ hist.disconnects = 1
        /\ hist.upsert_ok \subseteq {r.url : r \in rows}

\* C11: a failed upsert is contained: its slot is marked done and the writer
\* goes back to popping (whenever it is about to pop, every record it popped
\* was marked done), and when the writer has ended with the commit of
\* __exit__ done, the writes that succeeded before the failure are committed.
C11_UpsertFailureContained ==
    /\ dpc = "get" => hist.rq_done = Len(hist.rq_got)
    /\ (WriterDone /\ hist.upsert_failed # {} /\ hist.commits = 1) =>
          hist.upsert_ok \subseteq {r.url : r \in rows}

\* C12: an upsert that runs, in any store state and so also after an earlier
\* write of the same url, leaves exactly one row with the record's url, whose
\* other columns are the record's, and leaves the rows of other urls as they
\* were.
C12_UpsertIdempotent ==
    [][\A rec \in StoreRecords :
          StoreInsert(rec, "ok") =>
              /\ Cardinality({r \in txn_rows' : r.url = rec.url}) = 1
              /\ \A r \in txn_rows' : r.url = rec.url => r = rec
              /\ {r \in txn_rows' : r.url # rec.url} = {r \in txn_rows : r.url # rec.url}]_vars

\* C12 witness: url a has been written twice on this connection, next to a
\* row of url b, and the committed store holds the second record
C12_Witness ==
    /\ hist.rq_got = <<"a", "a">>
    /\ hist.upsert_failed = {}
    /\ hist.commits = 1
    /\ Cardinality(rows) = 2
    /\ ditem \in rows

\* C13: data_to_write_queue is bounded: whenever it holds items it has a
\* limit, and a put waits on a full queue so the items never exceed the limit.
C13_RecordQueueBounded ==
    rq # <<>> =>
        /\ data_to_write_queue_maxsize > 0
        /\ Len(rq) <= data_to_write_queue_maxsize

\* C14: when _get_category_links returns no link (the landing page fetch
\* failed, or no link matched), the run goes straight to its teardown: no
\* category page is scanned, no product is put on product_url_queue, no worker
\* and no writer thread is started, and insert_product_data is never called.
C14_NoCategoriesAborts ==
    hist.no_categories =>
        /\ opc \in {"teardown", "done"}
        /\ category_links = <<>> /\ cat_i = 0 /\ all_products = <<>>
        /\ pq = <<>> /\ pq_unfinished = 0 /\ hist.enqueued = <<>>
        /\ \A w \in Workers : wpc[w] = "idle"
        /\ dpc = "idle" /\ conn = "none"
        /\ rq = <<>> /\ hist.rq_got = <<>>
        /\ hist.upsert_ok = {} /\ hist.upsert_failed = {}
        /\ rows = {}

\* C14 witness: the run has ended after an empty category list
C14_Witness ==
    /\ hist.no_categories
    /\ opc = "done"
    /\ hist.closes = 1

\* C15: the scraper's session is closed once per run, by the orchestrator's
\* finally clause, and only when no worker runs any more (all have returned,
\* or none was started): no worker holds a product, and so none fetches, on a
\* closed session.
C15_SessionClosedAfterWorkers ==
    /\ hist.closes <= 1
    /\ session_closed <=> hist.closes = 1
    /\ opc = "done" <=> session_closed
    /\ session_closed =>
          \/ AllWorkersExited
          \/ \A w \in Workers : wpc[w] = "idle"
    /\ \A w \in Workers : wpc[w] \in {"get", "fetch", "task_done", "sentinel"} => ~session_closed

\* C15 witness: the session is closed after two workers fetched and returned
C15_Witness ==
    /\ session_closed
    /\ AllWorkersExited
    /\ Len(hist.got) = 2
    /\ hist.closes = 1

\* C16: every run eventually executes the finally clause of run_scraping
\* (close_session and the timing log) and returns, also after an early
\* return, after a critical error, and when the join of the writer timed out.
C16_TeardownAlwaysRuns ==
    <>(opc = "done" /\ session_closed /\ hist.closes = 1)

\* C16 witness: the teardown has run although the writer thread had not ended
\* when its join timed out
C16_Witness ==
    /\ opc = "done"
    /\ session_closed
    /\ hist.join_timeout
    /\ dpc # "done"

\* the writer thread is inside its with block (or was, with __exit__ raised)
WriterHoldsStore ==
    \/ dpc \in {"get", "sentinel", "insert", "exit"}
    \/ dpc = "done" /\ hist.exit_raised

\* C17 as stated: during a run no thread but the writer invokes a store
\* operation.
C17_OnlyWriterTouchesStore ==
    /\ hist.main_store_ops = 0
    /\ hist.worker_store_ops = 0

\* C17 amended: the main thread invokes one store operation, the table
\* initialisation, as the first step of the run, before the writer thread is
\* started and on a connection it has released on return; from then on only
\* the writer thread touches the store: no worker does, and the connection is
\* held only while the writer is inside its with block.
C17_OnlyWriterOnceStarted ==
    /\ hist.worker_store_ops = 0
    /\ hist.main_store_ops = (IF opc = "create_table" THEN 0 ELSE 1)
    /\ opc = "create_table" => dpc = "idle" /\ conn = "none"
    /\ conn # "none" => WriterHoldsStore
    /\ (hist.upsert_ok # {} \/ hist.upsert_failed # {} \/ hist.commits > 0) => dpc # "idle"

\* C17 witness: the table was initialised by the main thread, the writer has
\* the connection and a row written, and a worker is handling a product
C17_Witness ==
    /\ hist.main_store_ops = 1
    /\ conn = "open"
    /\ dpc = "get"
    /\ hist.upsert_ok # {}
    /\ \E w \in Workers : wpc[w] = "fetch"

\* C18: the join of product_url_queue cannot deadlock: whatever mix of
\* fetched pages, failed fetches and unexpected errors the products meet, a
\* worker that holds a product eventually marks it done, and the orchestrator
\* waiting in join eventually gets past it, every queued product marked done.
C18_ProductJoinReturns ==
    /\ \A w \in Workers : InFlight(w) ~> ~InFlight(w)
    /\ (opc = "join_products") ~>
          (opc = "put_sentinels" /\ pq_unfinished = 0
              /\ hist.pq_done = Len(hist.enqueued))

\* C18 witness: the join has returned after a run with a failed fetch and an
\* unexpected worker error
C18_Witness ==
    /\ opc = "put_sentinels"
    /\ sentinels_put = 0
    /\ hist.fetch_failed # {}
    /\ hist.worker_error # {}
    /\ hist.pq_done = 2

\* the None items the workers have popped and marked done
SentinelsDone ==
    sentinels_put - Cardinality({i \in 1..Len(pq) : pq[i] = None})
        - Cardinality({w \in Workers : wpc[w] = "sentinel"})

\* C19: a worker whose handling of a product raises marks that product done,
\* once, and goes back to popping: the step that records the error takes one
\* from unfinished_tasks and leaves the worker at its get, and over the run
\* the task_done calls number the products no longer held plus the None items
\* consumed (no product is marked twice or not at all).
C19_WorkerErrorMarksOnceAndContinues ==
    /\ [](hist.pq_done = Len(hist.got) - Cardinality({w \in Workers : InFlight(w)})
                            + SentinelsDone)
    /\ [](pq_unfinished = Len(hist.enqueued) + sentinels_put - hist.pq_done)
    /\ [][\A w \in Workers :
            (wpc[w] = "fetch" /\ wpc'[w] # "fetch"
                /\ witem[w].url \in hist'.worker_error) =>
                /\ pq_unfinished' = pq_unfinished - 1
                /\ hist'.pq_done = hist.pq_done + 1
                /\ wpc'[w] = "get"
                /\ rq' = rq]_vars

\* C19 witness: the only worker started so far has hit an error on the first
\* product, marked it done, and is back at its get with the second one queued
C19_Witness ==
    /\ hist.worker_error = {"a"}
    /\ hist.pq_done = 1
    /\ wpc[1] = "get" /\ wpc[2] = "idle"
    /\ Len(pq) = 1

\* a worker has been submitted to the pool
WorkerStarted == \E w \in Workers : wpc[w] # "idle"

\* q2 is the end of q1
IsSuffix(q2, q1) ==
    Len(q2) <= Len(q1) /\ q2 = SubSeq(q1, Len(q1) - Len(q2) + 1, Len(q1))

\* C20: discovery and the population of product_url_queue are over before a
\* worker starts: once a worker is started the orchestrator is past them, a
\* step never adds a product to the queue (its products are an end of what
\* they were), and so a worker that leaves through the get timeout leaves no
\* product in the queue.
C20_PopulatedBeforeWorkers ==
    /\ [](WorkerStarted =>
            opc \in {"submit", "join_products", "put_sentinels", "wait_workers",
                     "put_writer_sentinel", "join_writer", "teardown", "done"})
    /\ [][WorkerStarted' =>
            /\ IsSuffix(Records(pq'), Records(pq))
            /\ hist'.enqueued = hist.enqueued]_vars
    /\ [][\A w \in Workers :
            (wpc[w] = "get" /\ wpc'[w] = "done") =>
                Records(pq) = <<>> /\ Records(pq') = <<>>]_vars

\* C20 witness: one worker has left through the get timeout (no None was put
\* yet) while the other still handles a product; the queue is empty
C20_Witness ==
    /\ sentinels_put = 0
    /\ \E w \in Workers : wpc[w] = "done"
    /\ \E w \in Workers : wpc[w] = "fetch"
    /\ pq = <<>>
    /\ Len(hist.enqueued) = 2

\* the urls whose record was put on data_to_write_queue
PutUrls == Range(hist.rq_got) \cup Range(UrlsOf(Records(rq)))

\* the orchestrator is past product_url_queue.join()
JoinReturned ==
    opc \in {"put_sentinels", "wait_workers", "put_writer_sentinel", "join_writer"}
        \/ (opc \in {"teardown", "done"} /\ hist.rq_sentinels = 1)

\* C21: a worker puts the record of a product before it marks the product
\* done: a worker about to mark a fetched product has put its record, and
\* when the join of product_url_queue has returned every queued product was
\* popped and the record of each one whose fetch succeeded (it neither failed
\* nor raised) has been put on data_to_write_queue.
C21_RecordPutBeforeMarkDone ==
    /\ \A w \in Workers :
          (wpc[w] = "task_done" /\ witem[w].url \notin hist.fetch_failed) =>
              witem[w].url \in PutUrls
    /\ hist.pq_done - SentinelsDone <=
          hist.rq_records + Cardinality(hist.fetch_failed) + Cardinality(hist.worker_error)
    /\ JoinReturned =>
          /\ Len(hist.got) = Len(hist.enqueued)
          /\ Range(hist.got) \ (hist.fetch_failed \cup hist.worker_error) \subseteq PutUrls
          /\ hist.rq_records = Cardinality(Range(hist.got) \ (hist.fetch_failed \cup hist.worker_error))

\* C21 witness: the join has just returned, both products were fetched and
\* both records have been put
C21_Witness ==
    /\ opc = "put_sentinels"
    /\ sentinels_put = 0
    /\ hist.fetch_failed = {} /\ hist.worker_error = {}
    /\ Cardinality(PutUrls) = 2

\* the places of ps where a url occurs for the first time
FirstPlaces(ps) == {i \in 1..Len(ps) : \A j \in 1..(i - 1) : ps[j].url # ps[i].url}

\* the k-th smallest member of a set of numbers
KthOf(S, k) == CHOOSE i \in S : Cardinality({j \in S : j <= i}) = k

\* one entry per url of ps, in the order of the urls' first occurrences, each
\* the last entry of ps with its url
FirstOrderLastValue(ps) ==
    [k \in 1..Cardinality(FirstPlaces(ps)) |->
        LastWithUrl(ps, ps[KthOf(FirstPlaces(ps), k)].url)]

\* product_url_queue has been populated from all_products_from_categories
Populated ==
    /\ ~hist.no_categories
    /\ ~hist.critical
    /\ opc \in {"start_writer", "teardown", "done"}

\* C22: in test mode the products enqueued number min(TEST_PRODUCT_LIMIT,
\* unique urls) and are the first entries of the deduplicated list, which has
\* the urls in the order of their first occurrence, each with the fields of
\* its last occurrence; outside test mode the whole deduplicated list is
\* enqueued.
C22_TestModeTruncates ==
    Populated =>
        LET d == FirstOrderLastValue(all_products)
        IN  /\ test_mode =>
                  /\ Len(hist.enqueued) = Min(test_product_limit, Len(d))
                  /\ hist.enqueued = SubSeq(d, 1, Len(hist.enqueued))
            /\ ~test_mode => hist.enqueued = d
            /\ opc = "start_writer" => pq = hist.enqueued

\* C22 witness: test mode with limit 1; url a was found first and last, with
\* different listing names, url b between them; one product is enqueued
C22_Witness ==
    /\ opc = "start_writer"
    /\ test_mode /\ test_product_limit = 1
    /\ Len(all_products) = 3
    /\ all_products[1].url = all_products[3].url
    /\ all_products[2].url # all_products[1].url
    /\ all_products[1].name_on_listing # all_products[3].name_on_listing
    /\ pq = <<all_products[3]>>

\* q1 is the beginning of q2
IsPrefix(q1, q2) == Len(q1) <= Len(q2) /\ q1 = SubSeq(q2, 1, Len(q1))

\* C23: a category page whose fetch failed contributes no product, and the
\* scan goes on: the run leaves the scan only after its last category, a scan
\* step keeps every product collected so far and moves to the next category,
\* and the products of the other categories are what the queue is populated
\* from (outside test mode every url collected is enqueued).
C23_FailedCategorySkipped ==
    /\ [](\A p \in Range(all_products) : p.category_on_listing \notin hist.cat_failed)
    /\ []((hist.cat_failed # {} /\ opc # "scan_categories") =>
              cat_i = Len(category_links))
    /\ []((Populated /\ ~test_mode) =>
              {p.url : p \in Range(hist.enqueued)} = {p.url : p \in Range(all_products)})
    /\ [][(opc = "scan_categories" /\ cat_i' # cat_i) =>
              /\ opc' = "scan_categories"
              /\ cat_i' = cat_i + 1
              /\ IsPrefix(all_products, all_products')]_vars

\* C23 witness: the page of the first category failed, the page of the second
\* one gave products, and they are enqueued
C23_Witness ==
    /\ opc = "start_writer"
    /\ hist.cat_failed = {"devops"}
    /\ Len(category_links) = 2
    /\ Len(pq) = 2
    /\ \A i \in 1..2 : pq[i].category_on_listing = "it-infrastructure"

\* C24: on each queue the task_done calls never outnumber the puts:
\* unfinished_tasks, which is puts minus task_done calls, is never negative
\* (task_done would raise ValueError).
C24_TaskDoneNeverExceedsPuts ==
    /\ hist.pq_done <= Len(hist.enqueued) + sentinels_put
    /\ pq_unfinished = Len(hist.enqueued) + sentinels_put - hist.pq_done
    /\ pq_unfinished >= 0
    /\ hist.rq_done <= hist.rq_records + hist.rq_sentinels
    /\ rq_unfinished = hist.rq_records + hist.rq_sentinels - hist.rq_done
    /\ rq_unfinished >= 0

\* C24 witness: the run is over with every item of both queues marked done,
\* a failed fetch among them
C24_Witness ==
    /\ opc = "done"
    /\ dpc = "done"
    /\ Len(hist.enqueued) = 2
    /\ hist.fetch_failed # {}
    /\ hist.pq_done = 2 + sentinels_put
    /\ hist.rq_done = hist.rq_records + 1
    /\ hist.rq_records = 1

\* the None items in product_url_queue
SentinelsQueued == Cardinality({i \in 1..Len(pq) : pq[i] = None})

\* the None items the workers have popped
SentinelsPopped == sentinels_put - SentinelsQueued

\* the orchestrator is past the loop that puts one None per worker
SentinelsAllPut ==
    opc \in {"wait_workers", "put_writer_sentinel", "join_writer"}
        \/ (opc \in {"teardown", "done"} /\ hist.rq_sentinels = 1)

\* the orchestrator puts NumWorkers None items, a worker stops at the first
\* one it pops, and every worker that has returned either popped a None or
\* timed out
SentinelBookkeeping ==
    /\ sentinels_put <= NumWorkers
    /\ SentinelsAllPut => sentinels_put = NumWorkers
    /\ SentinelsPopped =
          Cardinality({w \in Workers : wpc[w] = "sentinel"})
              + Cardinality({w \in Workers : wpc[w] = "done"}) - hist.timeouts
    /\ AllWorkersExited => SentinelsPopped + hist.timeouts = NumWorkers

\* C25 as stated: the orchestrator puts exactly NumWorkers None items, each
\* worker pops at most one, and when all workers have exited the None items
\* popped plus the timeout exits are NumWorkers and the None items left in
\* the queue number the timeout exits.
C25_SentinelsConsumedOrLeft ==
    /\ SentinelBookkeeping
    /\ AllWorkersExited => SentinelsQueued = hist.timeouts

\* C25 amended: the same, with the None items left in the queue numbering the
\* timeout exits once all workers have exited and the orchestrator has put
\* its NumWorkers None items; while it has not, the None items left and the
\* ones still to be put together number the timeout exits.
C25_SentinelsLeftOncePut ==
    /\ SentinelBookkeeping
    /\ (AllWorkersExited /\ sentinels_put = NumWorkers) => SentinelsQueued = hist.timeouts
    /\ AllWorkersExited =>
          SentinelsQueued + (NumWorkers - sentinels_put) = hist.timeouts

\* C25 witness: all None items are put and all workers have exited, one by a
\* None and one by the timeout, whose None is left in the queue
C25_Witness ==
    /\ AllWorkersExited
    /\ sentinels_put = NumWorkers
    /\ hist.timeouts = 1
    /\ SentinelsQueued = 1
    /\ pq = <<None>>

\* the writer's __enter__ failed to connect
ConnectFailed == hist.writer_end = "connect_failed"

\* C26: when the writer's __enter__ fails to connect, the writer thread ends
\* having popped no record and committed nothing, and the run goes on
\* without it: the workers pop and mark done every queued product and the
\* orchestrator reaches its teardown.
C26_ConnectFailureContained ==
    /\ [](ConnectFailed =>
            /\ dpc = "done" /\ conn = "none"
            /\ hist.rq_got = <<>> /\ hist.rq_done = 0
            /\ hist.upsert_ok = {} /\ hist.upsert_failed = {}
            /\ hist.commits = 0 /\ rows = {})
    /\ ConnectFailed ~>
          (/\ opc = "done" /\ session_closed
           /\ AllWorkersExited
           /\ Len(hist.got) = Len(hist.enqueued)
           /\ hist.pq_done - SentinelsDone = Len(hist.enqueued)
           /\ Len(Records(rq)) = hist.rq_records)

\* C26 witness: the connection failed, the run is over, and the records of
\* both products sit unconsumed on data_to_write_queue
C26_Witness ==
    /\ ConnectFailed
    /\ opc = "done"
    /\ hist.pq_done - SentinelsDone = 2
    /\ Len(Records(rq)) = 2

\* the run is past the population of product_url_queue, which put nothing
PopulatedEmpty ==
    /\ ~hist.no_categories
    /\ ~hist.critical
    /\ opc \notin {"create_table", "get_categories", "scan_categories"}
    /\ hist.enqueued = <<>>

\* C27: when product_url_queue is empty after the deduplication and the
\* test-mode cut, the run goes to its teardown: the writer thread and the
\* workers are never started, no None is put on either queue, and the
\* session is closed when the run ends.
C27_EmptyQueueReturns ==
    PopulatedEmpty =>
        /\ opc \in {"teardown", "done"}
        /\ dpc = "idle" /\ conn = "none"
        /\ \A w \in Workers : wpc[w] = "idle"
        /\ sentinels_put = 0 /\ hist.rq_sentinels = 0
        /\ pq = <<>> /\ rq = <<>>
        /\ pq_unfinished = 0 /\ rq_unfinished = 0
        /\ opc = "done" => session_closed /\ hist.closes = 1

\* C27 witness: test mode with a limit of zero: products were discovered,
\* none was enqueued, and the run has ended with the session closed
C27_Witness ==
    /\ PopulatedEmpty
    /\ test_mode /\ test_product_limit = 0
    /\ hist.discovered # {}
    /\ opc = "done"
    /\ session_closed

\* the insert_product_data calls the writer has made, and their urls
UpsertAttempts == Len(hist.rq_got) - (IF dpc = "insert" THEN 1 ELSE 0)

AttemptedUrls == hist.upsert_ok \cup hist.upsert_failed

\* C28: every url the writer has called insert_product_data for is the url
\* of a product that was put on product_url_queue, popped by a worker and
\* fetched (its fetch neither failed nor raised); each such url is tried
\* once, and the calls never outnumber the products enqueued.
C28_UpsertsOnlyOfFetchedProducts ==
    /\ AttemptedUrls \subseteq {p.url : p \in Range(hist.enqueued)}
    /\ AttemptedUrls \subseteq Range(hist.got)
    /\ AttemptedUrls \cap (hist.fetch_failed \cup hist.worker_error) = {}
    /\ AttemptedUrls = {hist.rq_got[i] : i \in 1..UpsertAttempts}
    /\ UpsertAttempts = Cardinality(AttemptedUrls)
    /\ UpsertAttempts <= hist.rq_records
    /\ UpsertAttempts <= Len(hist.enqueued)

\* C28 witness: the writer has tried both products, one upsert ran and the
\* other failed
C28_Witness ==
    /\ hist.upsert_ok = {"a"}
    /\ hist.upsert_failed = {"b"}
    /\ UpsertAttempts = 2
    /\ dpc = "get"

====
